---- MODULE Spec2Model ----
(***************************************************************************)
(* The archive publishing pipeline of tg-archive: Build.build() of         *)
(* src/tgarchive/build.py and of its earlier revision                      *)
(* src/tgarchive/build1.py, over a message store (tgarchive.db, which is   *)
(* not part of the sources and is modelled from its interface).            *)
(*                                                                         *)
(* One run of build() is one behaviour: pc is the position inside build(), *)
(* one action per statement group or loop iteration.  A message is         *)
(* represented by its id; its attributes are looked up in db.              *)
(*                                                                         *)
(* TelegramFormatter.convert of src/tgarchive/telegram_format.py is the    *)
(* operator convert over texts, which are sequences of characters; the     *)
(* action Convert applies it to a text and to its own result.              *)
(***************************************************************************)
EXTENDS Integers, Sequences, FiniteSets, TLC

VARIABLES
    variant,        \* which Build class runs: "build" (build.py) or "build1" (build1.py)
    template,       \* self.template: "loaded" after load_template, else None
    db,             \* the message store: [timeline, bucket_of, content, day, unrenderable]
    env,            \* the environment of the run: [unwritable], the files whose write fails
    config,         \* self.config: [publish_dir, per_page, publish_rss_feed, rss_feed_entries]
    symlink,        \* self.symlink
    pc,             \* position inside build()
    error,          \* the exception build() raised, or None
    page_ids,       \* self.page_ids: message id -> filename
    day_to_page,    \* self.day_to_page: day slug -> filename (build.py only)
    self_timeline,  \* self.timeline: year -> list of months
    timeline,       \* the local `timeline` of build()
    mi,             \* index in `timeline` of the month the running for-loop is at
    last_id,        \* the local last_id of the running pagination loop
    page,           \* the local page of the running pagination loop
    total_pages,    \* the local total_pages of the render loop
    rss_entries,    \* the local deque rss_entries
    last_rendered_fname, \* the local last_rendered_fname / last_rendered
    records,        \* the local records of _build_search_index
    fs,             \* the directory publish_dir resolves to: [state, files]
    fsops,          \* the filesystem calls made so far, in order
    scanned,        \* history: the pages met by the resolution pass, in order
    rendered,       \* history: the _render_page calls made, in order
    phases,         \* history: the pipeline phases entered, in order
    searched,       \* history: the pages met by _build_search_index, in order
    degraded,       \* history: the ids whose content _markdown rendered by its fallback
    requests,       \* history: the get_messages calls of the pagination loop last run
    tg_text,        \* the text handed to TelegramFormatter.convert
    tg_out          \* the results of applying convert to it, once and again

vars == <<variant, template, db, env, config, symlink, pc, error, page_ids,
          day_to_page, self_timeline, timeline, mi, last_id, page, total_pages,
          rss_entries, last_rendered_fname, records, fs, fsops, scanned,
          rendered, phases, searched, degraded, requests, tg_text, tg_out>>

None == "None"

----------------------------------------------------------------------------
(* Bounds of the model *)

MaxId == 5          \* message ids range over 1..MaxId
MaxPerPage == 3     \* per_page ranges over 1..MaxPerPage
MaxFeed == 2        \* rss_feed_entries ranges over 0..MaxFeed
MaxText == 3        \* the texts handed to convert have up to MaxText characters

----------------------------------------------------------------------------
(* Generic helpers *)

Min(a, b) == IF a < b THEN a ELSE b

Range(s) == {s[i] : i \in 1..Len(s)}

Last(s) == s[Len(s)]

RECURSIVE SetToSeq(_)
\* the elements of a finite set of integers in ascending order
SetToSeq(S) ==
    IF S = {} THEN <<>>
    ELSE LET m == CHOOSE x \in S : \A y \in S : x <= y
         IN  <<m>> \o SetToSeq(S \ {m})

RECURSIVE Insert(_, _)
Insert(x, s) ==
    IF s = <<>> THEN <<x>>
    ELSE IF x < Head(s) THEN <<x>> \o s
    ELSE <<Head(s)>> \o Insert(x, Tail(s))

RECURSIVE SortById(_)
\* messages.sort(key=lambda x: x.id): a stable ascending sort on the id
SortById(s) == IF s = <<>> THEN <<>> ELSE Insert(Head(s), SortById(Tail(s)))

\* math.ceil(a / b) for a >= 0, b >= 1
Ceil(a, b) == (a + b - 1) \div b

\* dict assignment d[k] = v
Put(d, k, v) == [x \in DOMAIN d \cup {k} |-> IF x = k THEN v ELSE d[x]]

\* dict.get(k, default)
Get(d, k, default) == IF k \in DOMAIN d THEN d[k] ELSE default

EmptyMap == [x \in {} |-> None]

----------------------------------------------------------------------------
(* The message store (tgarchive.db) *)

\* the months of the archive: their slugs, in ascending period order
Months == <<"2023-12", "2024-01">>

\* month.date.year of a month
Year(month) == IF month = "2023-12" THEN 2023 ELSE 2024

Ids == 1..MaxId

\* db.get_timeline(): the ordered months of the archive
get_timeline(d) == d.timeline

\* the ids of the messages of a month
IdsOf(d, month) == {i \in Ids : d.bucket_of[i] = month}

\* db.get_message_count(year, month)
get_message_count(d, month) == Cardinality(IdsOf(d, month))

\* db.get_messages(year, month, last_id, limit): the first `limit` messages of
\* the month with id > last_id, in ascending id order
get_messages(d, month, lastid, limit) ==
    LET after == SetToSeq({i \in IdsOf(d, month) : i > lastid})
    IN  SubSeq(after, 1, Min(limit, Len(after)))

----------------------------------------------------------------------------
(* Message content *)

Whitespace == {" ", "\n", "\t"}

RECURSIVE LStrip(_)
LStrip(s) ==
    IF s # <<>> /\ Head(s) \in Whitespace THEN LStrip(Tail(s)) ELSE s

RECURSIVE RStrip(_)
RStrip(s) ==
    IF s # <<>> /\ Last(s) \in Whitespace THEN RStrip(SubSeq(s, 1, Len(s) - 1)) ELSE s

\* str.strip()
Strip(s) == RStrip(LStrip(s))

\* a raw text that is not stripped
RawTextUnstripped(content) == IF content = None THEN <<>> ELSE content

\* (msg.content or "").strip(): content is None or a string (a sequence of characters)
RawText(content) == IF content = None THEN <<>> ELSE Strip(content)

\* the contents a message can have
Contents == << <<"a">>, None, <<>>, <<" ", "\n">>, <<" ", "b", "\t">> >>

----------------------------------------------------------------------------
(* TelegramFormatter (telegram_format.py); a text is a sequence of characters *)

\* the character ` (a string of the model cannot hold it)
Backquote == "BACKQUOTE"

\* html.escape(c) of one character, quote=True
EscapeChar(c) ==
    CASE c = "&" -> <<"&", "a", "m", "p", ";">>
      [] c = "<" -> <<"&", "l", "t", ";">>
      [] c = ">" -> <<"&", "g", "t", ";">>
      [] c = "\"" -> <<"&", "q", "u", "o", "t", ";">>
      [] c = "'" -> <<"&", "#", "x", "2", "7", ";">>
      [] OTHER -> <<c>>

RECURSIVE Escape(_)
\* html.escape(text)
Escape(text) ==
    IF text = <<>> THEN <<>> ELSE EscapeChar(Head(text)) \o Escape(Tail(text))

\* the delimiter d stands in text at position j
OccursAt(text, d, j) ==
    j + Len(d) - 1 <= Len(text) /\ SubSeq(text, j, j + Len(d) - 1) = d

\* the first position from `from` on where d stands in text, 0 if there is none
FirstAt(text, d, from) ==
    LET at == {j \in from..Len(text) : OccursAt(text, d, j)}
    IN  IF at = {} THEN 0 ELSE CHOOSE j \in at : \A k \in at : j <= k

RECURSIVE Sub(_, _, _, _, _, _)
\* PATTERN.sub(repl, text) for a pattern  d (group) d : the matches are taken
\* from left to right and do not overlap; the group ends at the next d, has
\* at least `least` characters and none of excl ("." matches no newline,
\* [^`] no backquote); a match is replaced by  l group r
Sub(text, d, excl, least, l, r) ==
    IF text = <<>> THEN <<>>
    ELSE LET j == FirstAt(text, d, 1 + Len(d) + least)
             group == SubSeq(text, 1 + Len(d), j - 1)
         IN  IF /\ OccursAt(text, d, 1)
                /\ j # 0
                /\ \A k \in 1..Len(group) : group[k] \notin excl
             THEN l \o group \o r \o Sub(SubSeq(text, j + Len(d), Len(text)), d, excl, least, l, r)
             ELSE <<Head(text)>> \o Sub(Tail(text), d, excl, least, l, r)

\* UNDERLINE_PATTERN.sub(r"<u>\1</u>", text)
Underline(text) == Sub(text, <<"_", "_">>, {"\n"}, 0, <<"<", "u", ">">>, <<"<", "/", "u", ">">>)

\* BOLD_PATTERN.sub(r"**\1**", text)
Bold(text) == Sub(text, <<"*">>, {"\n"}, 0, <<"*", "*">>, <<"*", "*">>)

\* ITALIC_PATTERN.sub(r"*\1*", text)
Italic(text) == Sub(text, <<"_">>, {"\n"}, 0, <<"*">>, <<"*">>)

\* STRIKE_PATTERN.sub(r"~~\1~~", text)
Strike(text) == Sub(text, <<"~">>, {"\n"}, 0, <<"~", "~">>, <<"~", "~">>)

\* INLINE_CODE_PATTERN.sub(r"`\1`", text)
InlineCode(text) == Sub(text, <<Backquote>>, {Backquote}, 1, <<Backquote>>, <<Backquote>>)

\* a convert that leaves the text as it is
convertVerbatim(text) == text

\* TelegramFormatter.convert
convert(text) ==
    IF text = <<>> THEN <<>>
    ELSE InlineCode(Strike(Italic(Bold(Underline(Escape(text))))))

\* the characters of the texts
Alphabet == {"a", "&", "<", "*", "_", "~", Backquote, "\n"}

\* the texts of up to MaxText characters
Texts == UNION {[1..n -> Alphabet] : n \in 0..MaxText}

----------------------------------------------------------------------------
(* Filenames and URLs *)

\* a make_filename that gives the first page a suffix too
make_filenameSuffixed(month, p) ==
    month \o (IF p > 0 THEN "_" \o ToString(p) ELSE "") \o ".html"

\* a make_filename that leaves the page number out
make_filenameFlat(month, p) == month \o ".html"

\* Build.make_filename(month, page)
make_filename(month, p) ==
    month \o (IF p > 1 THEN "_" \o ToString(p) ELSE "") \o ".html"

\* f"{file_loc}#{msg.id}"
MsgUrl(file_loc, id) == file_loc \o "#" \o ToString(id)

\* m.date.strftime("%Y-%m-%d") of a message of `month` whose day of month is dd
DateSlug(month, dd) == month \o "-" \o dd

----------------------------------------------------------------------------
(* Paths *)

\* the values publish_dir is given in the model
PublishDirs == {"site", "/", "//", "/home/u", "/home/u/"}

\* os.path.expanduser("~")
Home == "/home/u"

\* os.path.abspath(path) with the working directory /srv: redundant and
\* trailing separators are dropped, but exactly two leading slashes are kept
Abspath(path) ==
    CASE path = "site" -> "/srv/site"
      [] path = "/home/u/" -> "/home/u"
      [] OTHER -> path

\* the directory a path denotes on the filesystem
Resolve(path) ==
    CASE path \in {"/", "//"} -> "root"
      [] path \in {"/home/u", "/home/u/"} -> "home"
      [] OTHER -> "site"

----------------------------------------------------------------------------
(* collections.deque(maxlen=n) *)

\* a window that, once full, drops what is appended instead of what is oldest
DequeExtendKeepOldest(dq, items, n) ==
    LET all == dq \o items
    IN  SubSeq(all, 1, Min(n, Len(all)))

\* deque.extend(items) on a deque of maximal length n: append on the right,
\* discard from the left what exceeds n
DequeExtend(dq, items, n) ==
    LET all == dq \o items
    IN  SubSeq(all, Len(all) - Min(n, Len(all)) + 1, Len(all))

----------------------------------------------------------------------------
(* Initial states: a Build object right after __init__ (and load_template),  *)
(* a store and a configuration                                             *)

\* the timelines a store can have: the first n months
Timelines == {SubSeq(Months, 1, n) : n \in 0..Len(Months)}

\* the assignments of the ids 1..MaxId to the months of a timeline (None: the
\* store has no message of that id)
BucketMaps(tl) == [Ids -> Range(tl) \cup {None}]

\* the k-th layout of message attributes: which content and which day of the
\* month the message of each id has
Layouts == 0..(Len(Contents) - 1)

ContentLayout(k) == [i \in Ids |-> Contents[((i + k) % Len(Contents)) + 1]]

DayLayout(k) == [i \in Ids |-> IF ((i + k) \div 2) % 2 = 0 THEN "01" ELSE "02"]

\* unrenderable: the ids whose content the markdown rendering raises on
Store(tl, b, k) ==
    [timeline |-> tl, bucket_of |-> b, content |-> ContentLayout(k), day |-> DayLayout(k),
     unrenderable |-> {}]

\* every store over the ids 1..MaxId, with attribute layout k
Stores(k) == UNION {{Store(tl, b, k) : b \in BucketMaps(tl)} : tl \in Timelines}

\* a few stores: every id present, the ids up to n in the first month
FewStores == {Store(tl, [i \in Ids |-> IF i <= n \/ Len(tl) = 1 THEN tl[1] ELSE tl[2]], 0) :
                 tl \in Timelines \ {<<>>}, n \in {0, 1}}
             \cup {Store(<<>>, [i \in Ids |-> None], 0)}

Config(pd, pp, feed, n) ==
    [publish_dir |-> pd, per_page |-> pp, publish_rss_feed |-> feed, rss_feed_entries |-> n]

PerPages == 1..MaxPerPage

FeedSizes == 0..MaxFeed

\* an environment in which every write succeeds
NoFailure == [unwritable |-> {}]

\* no get_messages call made yet
NoRequest == [pass |-> None, month |-> None, after |-> 0, count |-> 0, done |-> FALSE]

InitRun(v, tp, d, c, sl, exists, e, start, txt) ==
    /\ variant = v
    /\ template = tp
    /\ db = d
    /\ env = e
    /\ config = c
    /\ symlink = sl
    /\ pc = start
    /\ searched = <<>>
    /\ degraded = {}
    /\ requests = NoRequest
    /\ tg_text = txt
    /\ tg_out = <<>>
    /\ error = None
    /\ page_ids = EmptyMap
    /\ day_to_page = EmptyMap
    /\ self_timeline = EmptyMap
    /\ timeline = <<>>
    /\ mi = 0
    /\ last_id = 0
    /\ page = 0
    /\ total_pages = 0
    /\ rss_entries = <<>>
    /\ last_rendered_fname = None
    /\ records = <<>>
    /\ fs = IF exists
            THEN [exists |-> TRUE, files |-> [f \in {"old.html"} |-> [kind |-> "stale"]]]
            ELSE [exists |-> FALSE, files |-> EmptyMap]
    /\ fsops = <<>>
    /\ scanned = <<>>
    /\ rendered = <<>>
    /\ phases = <<"Idle">>

\* a Build about to run build(), in an environment without failures
InitWith(v, tp, d, c, sl, exists) == InitRun(v, tp, d, c, sl, exists, NoFailure, "idle", <<>>)

\* every store and attribute layout, searched by build.py
InitSearch ==
    \E k \in Layouts, pp \in PerPages : \E d \in Stores(k) :
        InitWith("build", "loaded", d, Config("site", pp, FALSE, 0), FALSE, TRUE)

\* every store, page size and feed window, by both revisions
InitFeed ==
    \E v \in {"build", "build1"}, d \in Stores(0), pp \in PerPages, n \in FeedSizes :
        InitWith(v, "loaded", d, Config("site", pp, TRUE, n), FALSE, TRUE)

\* every store and page size, index.html copied or linked, by both revisions
InitIndex ==
    \E v \in {"build", "build1"}, d \in Stores(0), pp \in PerPages, sl \in BOOLEAN :
        InitWith(v, "loaded", d, Config("site", pp, FALSE, 0), sl, TRUE)

\* every publish directory and template state, over a few stores
InitEnv ==
    \E v \in {"build", "build1"}, tp \in {"loaded", None}, d \in FewStores,
       pd \in PublishDirs, feed \in BOOLEAN, exists \in BOOLEAN :
        /\ Resolve(pd) \in {"root", "home"} => exists
        /\ InitWith(v, tp, d, Config(pd, 1, feed, 1), FALSE, exists)

\* the ids that raise in the markdown rendering, over a few stores
InitMarkdown ==
    \E v \in {"build", "build1"}, d \in FewStores, bad \in {{3}, {4}, {4, 5}},
       feed \in BOOLEAN :
        InitWith(v, "loaded", [d EXCEPT !.unrenderable = bad], Config("site", 2, feed, MaxFeed),
                 FALSE, TRUE)

\* the files that can be written
OutputFiles ==
    {make_filename(Months[m], p) : m \in 1..Len(Months), p \in 1..MaxId} \cup {"search.json"}

\* one file that cannot be written, over a few stores
InitWrite ==
    \E v \in {"build", "build1"}, d \in FewStores, f \in OutputFiles, feed \in BOOLEAN :
        InitRun(v, "loaded", d, Config("site", 2, feed, MaxFeed), FALSE, TRUE,
                [unwritable |-> {f}], "idle", <<>>)

\* a TelegramFormatter about to convert a text, raw or escaped before
InitText ==
    \E t \in Texts, escaped \in BOOLEAN :
        InitRun("build", "loaded", Store(<<>>, [i \in Ids |-> None], 0),
                Config("site", 1, FALSE, 0), FALSE, FALSE, NoFailure, "formatter",
                IF escaped THEN Escape(t) ELSE t)

Init == InitSearch \/ InitFeed \/ InitIndex \/ InitEnv \/ InitMarkdown \/ InitWrite \/ InitText

----------------------------------------------------------------------------
(* _create_publish_dir *)

\* the guard of build1.py: the absolute path is "/" or the home directory.
\* build.py has no such guard.
RefusesDir(v, path) == v = "build1" /\ Abspath(path) \in {"/", Home}

FsOp(op, name) == [op |-> op, on |-> name]

\* static_dir and media_dir exist; each is linked or copied into the new directory
Assets == [f \in {"static", "media"} |-> [kind |-> IF symlink THEN "link" ELSE "asset"]]

\* a reset that leaves the files of the old directory in the new one
ResetDirKeepsOld(files) == Assets @@ files

\* the files of the directory after shutil.rmtree, os.mkdir and the copies
ResetDir(files) == Assets

CreatePublishDir ==
    /\ pc = "idle"
    /\ IF RefusesDir(variant, config.publish_dir)
       THEN /\ error' = "RuntimeError"
            /\ pc' = "failed"
            /\ UNCHANGED <<fs, fsops, phases>>
       ELSE /\ fs' = [exists |-> TRUE, files |-> ResetDir(fs.files)]
            /\ fsops' = fsops
                        \o (IF fs.exists
                            THEN <<FsOp("rmtree", Resolve(config.publish_dir))>>
                            ELSE <<>>)
                        \o <<FsOp("mkdir", Resolve(config.publish_dir)),
                             FsOp("copy", "static"), FsOp("copy", "media")>>
            /\ pc' = "dir_prepared"
            /\ phases' = Append(phases, "DirectoryPrepared")
            /\ UNCHANGED error
    /\ UNCHANGED <<searched, degraded, requests, env, tg_text, tg_out,
                   variant, template, db, config, symlink, page_ids,
                   day_to_page, self_timeline, timeline, mi, last_id, page,
                   total_pages, rss_entries, last_rendered_fname, records,
                   scanned, rendered>>

----------------------------------------------------------------------------
(* build(): loading the timeline *)

\* self.timeline: year -> the months of that year, in timeline order
YearIndex(tl) ==
    [y \in {Year(tl[i]) : i \in 1..Len(tl)} |->
        LET OfYear(m) == Year(m) = y IN SelectSeq(tl, OfYear)]

LoadTimeline ==
    /\ pc = "dir_prepared"
    /\ timeline' = get_timeline(db)
    /\ IF timeline' = <<>>
       THEN /\ pc' = "done"
            /\ phases' = Append(phases, "Done")
            /\ UNCHANGED <<self_timeline, mi>>
       ELSE /\ self_timeline' = YearIndex(timeline')
            /\ pc' = "scan"
            /\ mi' = 1
            /\ phases' = Append(phases, "TimelineLoaded")
    /\ last_id' = 0
    /\ page' = 0
    /\ UNCHANGED <<searched, degraded, requests, env, tg_text, tg_out,
                   variant, template, db, config, symlink, error, page_ids,
                   day_to_page, total_pages, rss_entries, last_rendered_fname,
                   records, fs, fsops, scanned, rendered>>

----------------------------------------------------------------------------
(* The resolution pass: _scan_timeline (build.py), _collect_page_ids (build1.py) *)

\* a resolution pass run with another page size than the render pass
ScanPerPageLarger == config["per_page"] + 1

\* the page size the resolution pass asks the store for
ScanPerPage == config["per_page"]

\* build.py sorts every result of the store by id; build1.py keeps it as it is
Sorted(v, got) == IF v = "build" THEN SortById(got) ELSE got

\* a resolution pass that records only the first message of each page
RecordPageIdsFirst(ids, messages, fname) ==
    IF messages = <<>> THEN ids ELSE Put(ids, Head(messages), fname)

RECURSIVE RecordPageIds(_, _, _)
\* for m in messages: self.page_ids[m.id] = fname
RecordPageIds(ids, messages, fname) ==
    IF messages = <<>> THEN ids
    ELSE RecordPageIds(Put(ids, Head(messages), fname), Tail(messages), fname)

RECURSIVE RecordDaysLastWins(_, _, _, _)
\* a day map in which a later message of the day replaces the entry
RecordDaysLastWins(days, messages, month, fname) ==
    IF messages = <<>> THEN days
    ELSE RecordDaysLastWins(Put(days, DateSlug(month, db.day[Head(messages)]), fname),
                            Tail(messages), month, fname)

RECURSIVE RecordDays(_, _, _, _)
\* for m in messages: if date_slug not in self.day_to_page: self.day_to_page[date_slug] = fname
RecordDays(days, messages, month, fname) ==
    IF messages = <<>> THEN days
    ELSE LET date_slug == DateSlug(month, db.day[Head(messages)])
         IN  RecordDays(IF date_slug \notin DOMAIN days THEN Put(days, date_slug, fname) ELSE days,
                        Tail(messages), month, fname)

\* a cursor that stays at the first message of the page
CursorFirst(messages) == Head(messages)

\* a cursor that never moves
CursorStuck(messages) == 0

\* last_id = messages[-1].id
Cursor(messages) == Last(messages)

\* the get_messages calls of the pagination loop running for a month: the
\* cursor the last call was made with, how many calls the loop has made, and
\* whether the last call returned nothing (the loop breaks)
Request(pass, month, lastid, got) ==
    [pass |-> pass, month |-> month, after |-> lastid,
     count |-> (IF lastid = 0 THEN 0 ELSE requests.count) + 1,
     done |-> got = <<>>]

\* a traversal that stops after the first month
MoreMonthsNever(i) == FALSE

\* for month in timeline: whether a month follows the i-th one
MoreMonths(i) == i < Len(timeline)

PageOf(month, p, fname, messages) ==
    [month |-> month, page |-> p, fname |-> fname, messages |-> messages]

ScanPage ==
    /\ pc = "scan"
    /\ LET month == timeline[mi]
           got == get_messages(db, month, last_id, ScanPerPage)
           messages == Sorted(variant, got)
           fname == make_filename(month, page + 1)
       IN
       /\ IF got = <<>>
           THEN /\ IF MoreMonths(mi)
                   THEN /\ mi' = mi + 1
                        /\ UNCHANGED <<pc, phases>>
                   ELSE /\ mi' = 0
                        /\ pc' = "resolved"
                        /\ phases' = Append(phases, "Resolved")
                /\ last_id' = 0
                /\ page' = 0
                /\ UNCHANGED <<page_ids, day_to_page, scanned>>
           ELSE /\ last_id' = Cursor(messages)
                /\ page' = page + 1
                /\ page_ids' = RecordPageIds(page_ids, messages, fname)
                /\ day_to_page' = IF variant = "build"
                                  THEN RecordDays(day_to_page, messages, month, fname)
                                  ELSE day_to_page
                /\ scanned' = Append(scanned, PageOf(month, page + 1, fname, messages))
                /\ UNCHANGED <<pc, mi, phases>>
       /\ requests' = Request("scan", month, last_id, got)
    /\ UNCHANGED <<searched, degraded, env, tg_text, tg_out, variant,
                   template, db, config, symlink, error, self_timeline,
                   timeline, total_pages, rss_entries, last_rendered_fname,
                   records, fs, fsops, rendered>>

----------------------------------------------------------------------------
(* The render pass of build() *)

\* a render pass run with another page size than the resolution pass
RenderPerPageLarger == config["per_page"] + 1

\* the page size the render pass asks the store for
RenderPerPage == config["per_page"]

\* a total_pages rounded down
TotalPagesFloor(total) == total \div config["per_page"]

\* total_pages = math.ceil(total / self.config["per_page"])
TotalPages(total) == Ceil(total, config["per_page"])

\* a render loop that appends to the window whatever the configuration says
FeedWindowAlways(window, messages) ==
    DequeExtend(window, messages, config["rss_feed_entries"])

\* rss_entries.extend(messages) on deque([], rss_feed_entries), when feeds are published
FeedWindow(window, messages) ==
    IF config["publish_rss_feed"]
    THEN DequeExtend(window, messages, config["rss_feed_entries"])
    ELSE window

\* what _render_page writes to the page file: the template's rendering of the
\* page's messages and of pagination = {"current": page, "total": total_pages}
PageFile(month, messages, p, total) ==
    [kind |-> "page", month |-> month, messages |-> messages,
     current |-> p, total |-> total]

\* a last_rendered_fname that is set once and kept
LastRenderedFirst(prev, fname) == IF prev = None THEN fname ELSE prev

\* last_rendered_fname = fname
LastRendered(prev, fname) == fname

\* `not text`: the content is None or the empty string
Falsy(content) == content = None \/ Len(content) = 0

\* the outcome of _markdown on the content of message i: "" for a falsy text,
\* else the html; when the conversion or the rendering raises, build.py logs it
\* and returns text.replace("\n", "<br>"), build1.py lets the exception out
Markdown(v, d, i) ==
    IF Falsy(d.content[i]) THEN "empty"
    ELSE IF i \notin d.unrenderable THEN "html"
    ELSE IF v = "build" THEN "fallback"
    ELSE "raise"

\* the messages of a list that _markdown is called on with the given outcome
Outcomes(v, d, messages, outcome) ==
    {messages[j] : j \in {k \in 1..Len(messages) : Markdown(v, d, messages[k]) = outcome}}

\* an open() that always succeeds
OpenFailsNever(e, fname) == FALSE

\* open(os.path.join(publish_dir, fname), "w") raises OSError
OpenFails(e, fname) == fname \in e.unwritable

\* what self.template.render raises when no template is loaded
TemplateError(v) == IF v = "build1" THEN "RuntimeError" ELSE "AttributeError"

RenderInit ==
    /\ pc = "resolved"
    /\ rss_entries' = <<>>
    /\ last_rendered_fname' = None
    /\ mi' = 1
    /\ pc' = "render_month"
    /\ phases' = Append(phases, "Rendering")
    /\ UNCHANGED <<searched, degraded, requests, env, tg_text, tg_out,
                   variant, template, db, config, symlink, error, page_ids,
                   day_to_page, self_timeline, timeline, last_id, page,
                   total_pages, records, fs, fsops, scanned, rendered>>

\* the head of the render loop: the next month of the timeline, or the end
RenderMonth ==
    /\ pc = "render_month"
    /\ IF mi > Len(timeline)
       THEN /\ pc' = "index"
            /\ UNCHANGED <<page, last_id, total_pages>>
       ELSE /\ page' = 0
            /\ last_id' = 0
            /\ total_pages' = TotalPages(get_message_count(db, timeline[mi]))
            /\ pc' = "render_page"
    /\ UNCHANGED <<searched, degraded, requests, env, tg_text, tg_out,
                   variant, template, db, config, symlink, error, page_ids,
                   day_to_page, self_timeline, timeline, mi, rss_entries,
                   last_rendered_fname, records, fs, fsops, scanned, rendered,
                   phases>>

\* one iteration of the while loop of the render pass
RenderPage ==
    /\ pc = "render_page"
    /\ LET month == timeline[mi]
           got == get_messages(db, month, last_id, RenderPerPage)
           messages == Sorted(variant, got)
           fname == make_filename(month, page + 1)
       IN
       /\ requests' = Request("render", month, last_id, got)
       /\ IF got = <<>>
          THEN /\ mi' = mi + 1
               /\ pc' = "render_month"
               /\ UNCHANGED <<last_id, page, last_rendered_fname, rss_entries,
                              error, fs, fsops, rendered, degraded>>
          ELSE /\ last_id' = Cursor(messages)
               /\ page' = page + 1
               /\ last_rendered_fname' = LastRendered(last_rendered_fname, fname)
               /\ rss_entries' = FeedWindow(rss_entries, messages)
               /\ UNCHANGED mi
               /\ IF template = None
                  THEN \* self.template.render on None
                       /\ error' = TemplateError(variant)
                       /\ pc' = "failed"
                       /\ UNCHANGED <<fs, fsops, rendered, degraded>>
                  ELSE IF Outcomes(variant, db, messages, "raise") # {}
                  THEN \* the template calls nl2br on a content, which raises
                       /\ error' = "MarkdownError"
                       /\ pc' = "failed"
                       /\ UNCHANGED <<fs, fsops, rendered, degraded>>
                  ELSE IF OpenFails(env, fname)
                  THEN /\ error' = "OSError"
                       /\ pc' = "failed"
                       /\ fsops' = Append(fsops, FsOp("open_failed", fname))
                       /\ degraded' = degraded \cup Outcomes(variant, db, messages, "fallback")
                       /\ UNCHANGED <<fs, rendered>>
                  ELSE /\ fs' = [fs EXCEPT !.files =
                                   Put(@, fname, PageFile(month, messages, page + 1, total_pages))]
                       /\ fsops' = Append(fsops, FsOp("write", fname))
                       /\ rendered' = Append(rendered,
                                             PageOf(month, page + 1, fname, messages)
                                             @@ [total_pages |-> total_pages])
                       /\ degraded' = degraded \cup Outcomes(variant, db, messages, "fallback")
                       /\ UNCHANGED <<pc, error>>
    /\ UNCHANGED <<searched, env, tg_text, tg_out, variant, template, db,
                   config, symlink, page_ids, day_to_page, self_timeline,
                   timeline, total_pages, records, scanned, phases>>

----------------------------------------------------------------------------
(* _build_index *)

\* index.html: a symlink to the page file, or a copy of it
IndexFile(files, fname) ==
    IF symlink THEN [kind |-> "link", to |-> fname] ELSE files[fname]

\* a build() that goes from the index straight to the feeds
AfterIndexNoSearch(v) == "rss"

\* what build() does after _build_index: build.py builds the search index,
\* build1.py has none and goes on to the feeds
AfterIndex(v) == IF v = "build" THEN "search" ELSE "rss"

BuildIndex ==
    /\ pc = "index"
    /\ IF last_rendered_fname # None
       THEN /\ fs' = [fs EXCEPT !.files =
                        Put(@, "index.html", IndexFile(@, last_rendered_fname))]
            /\ fsops' = Append(fsops, FsOp(IF symlink THEN "symlink" ELSE "copy", "index.html"))
       ELSE UNCHANGED <<fs, fsops>>
    /\ IF AfterIndex(variant) = "search"
       THEN /\ pc' = "search"
            /\ records' = <<>>
            /\ mi' = 1
            /\ last_id' = 0
       ELSE /\ pc' = "rss"
            /\ UNCHANGED <<records, mi, last_id>>
    /\ UNCHANGED <<searched, degraded, requests, env, tg_text, tg_out,
                   variant, template, db, config, symlink, error, page_ids,
                   day_to_page, self_timeline, timeline, page, total_pages,
                   rss_entries, last_rendered_fname, scanned, rendered,
                   phases>>

----------------------------------------------------------------------------
(* _build_search_index (build.py) *)

RECURSIVE SearchRecordsReversed(_)
\* the records of one page, the last message of the page first
SearchRecordsReversed(msgs) ==
    IF msgs = <<>> THEN <<>>
    ELSE LET msg == Head(msgs)
             raw == RawText(db.content[msg])
         IN  SearchRecordsReversed(Tail(msgs))
             \o (IF raw = <<>>
                 THEN <<>>
                 ELSE << [id |-> msg, text |-> raw,
                          url |-> MsgUrl(Get(page_ids, msg, ""), msg)] >>)

RECURSIVE SearchRecords(_)
\* the records of the messages of one page, blank messages skipped
SearchRecords(msgs) ==
    IF msgs = <<>> THEN <<>>
    ELSE LET msg == Head(msgs)
             raw == RawText(db.content[msg])
             file_loc == Get(page_ids, msg, "")
         IN  (IF raw = <<>>
              THEN <<>>
              ELSE << [id |-> msg, text |-> raw, url |-> MsgUrl(file_loc, msg)] >>)
             \o SearchRecords(Tail(msgs))

\* the messages of a page that get a record: "html": self._markdown(raw)
Recorded(msgs) == SelectSeq(msgs, LAMBDA msg : RawText(db.content[msg]) # <<>>)

\* one iteration of the while loop of _build_search_index
SearchPage ==
    /\ pc = "search"
    /\ LET month == timeline[mi]
           got == get_messages(db, month, last_id, config["per_page"])
           msgs == SortById(got)
       IN
       /\ requests' = Request("search", month, last_id, got)
       /\ IF got = <<>>
          THEN /\ IF MoreMonths(mi)
                  THEN /\ mi' = mi + 1
                       /\ UNCHANGED pc
                  ELSE /\ mi' = 0
                       /\ pc' = "search_write"
               /\ last_id' = 0
               /\ UNCHANGED <<records, searched, degraded>>
          ELSE /\ records' = records \o SearchRecords(msgs)
               /\ last_id' = Cursor(msgs)
               /\ searched' = Append(searched, [month |-> month, messages |-> msgs])
               /\ degraded' = degraded \cup Outcomes(variant, db, Recorded(msgs), "fallback")
               /\ UNCHANGED <<pc, mi>>
    /\ UNCHANGED <<env, tg_text, tg_out, variant, template, db, config,
                   symlink, error, page_ids, day_to_page, self_timeline,
                   timeline, page, total_pages, rss_entries,
                   last_rendered_fname, fs, fsops, scanned, rendered, phases>>

\* json.dump(records) to search.json
WriteSearch ==
    /\ pc = "search_write"
    /\ IF OpenFails(env, "search.json")
       THEN /\ error' = "OSError"
            /\ pc' = "failed"
            /\ fsops' = Append(fsops, FsOp("open_failed", "search.json"))
            /\ UNCHANGED <<fs, phases>>
       ELSE /\ fs' = [fs EXCEPT !.files =
                        Put(@, "search.json", [kind |-> "search", records |-> records])]
            /\ fsops' = Append(fsops, FsOp("write", "search.json"))
            /\ phases' = Append(phases, "Indexed")
            /\ pc' = "rss"
            /\ UNCHANGED error
    /\ UNCHANGED <<searched, degraded, requests, env, tg_text, tg_out,
                   variant, template, db, config, symlink, page_ids,
                   day_to_page, self_timeline, timeline, mi, last_id, page,
                   total_pages, rss_entries, last_rendered_fname, records,
                   scanned, rendered>>

----------------------------------------------------------------------------
(* _build_rss and the return of build() *)

\* self.config["site_url"]
SiteUrl == "https://site"

\* "{}/{}#{}".format(site_url, fname, m.id)
EntryUrl(fname, id) == SiteUrl \o "/" \o fname \o "#" \o ToString(id)

\* build1.py looks the page up with page_ids[m.id], which raises KeyError for
\* an id that is not in the map; build.py uses page_ids.get(m.id, "")
FeedLookupFails(messages) ==
    variant = "build1" /\ \E i \in 1..Len(messages) : messages[i] \notin DOMAIN page_ids

\* one entry per message of the window
FeedEntries(messages) ==
    [i \in 1..Len(messages) |->
        [id |-> messages[i], url |-> EntryUrl(Get(page_ids, messages[i], ""), messages[i])]]

BuildRss ==
    /\ pc = "rss"
    /\ IF ~config["publish_rss_feed"]
       THEN /\ pc' = "done"
            /\ phases' = Append(phases, "Done")
            /\ UNCHANGED <<fs, fsops, error, degraded>>
       ELSE IF FeedLookupFails(rss_entries)
       THEN /\ pc' = "failed"
            /\ error' = "KeyError"
            /\ UNCHANGED <<fs, fsops, phases, degraded>>
       ELSE IF Outcomes(variant, db, rss_entries, "raise") # {}
       THEN \* e.content(self._make_abstract(m)) raises
            /\ pc' = "failed"
            /\ error' = "MarkdownError"
            /\ UNCHANGED <<fs, fsops, phases, degraded>>
       ELSE /\ fs' = [fs EXCEPT !.files =
                        Put(Put(@, "index.xml", [kind |-> "rss", entries |-> FeedEntries(rss_entries)]),
                            "index.atom", [kind |-> "atom", entries |-> FeedEntries(rss_entries)])]
            /\ fsops' = fsops \o <<FsOp("write", "index.xml"), FsOp("write", "index.atom")>>
            /\ degraded' = degraded \cup Outcomes(variant, db, rss_entries, "fallback")
            /\ pc' = "done"
            /\ phases' = phases \o <<"FedPublished", "Done">>
            /\ UNCHANGED error
    /\ UNCHANGED <<searched, requests, env, tg_text, tg_out, variant,
                   template, db, config, symlink, page_ids, day_to_page,
                   self_timeline, timeline, mi, last_id, page, total_pages,
                   rss_entries, last_rendered_fname, records, scanned,
                   rendered>>

----------------------------------------------------------------------------

\* convert applied to the text, then to its own result
Convert ==
    /\ pc = "formatter"
    /\ Len(tg_out) < 2
    /\ tg_out' = Append(tg_out, convert(IF tg_out = <<>> THEN tg_text ELSE Last(tg_out)))
    /\ UNCHANGED <<variant, template, db, env, config, symlink, pc, error,
                   page_ids, day_to_page, self_timeline, timeline, mi,
                   last_id, page, total_pages, rss_entries,
                   last_rendered_fname, records, fs, fsops, scanned, rendered,
                   phases, searched, degraded, requests, tg_text>>

Next ==
    \/ CreatePublishDir
    \/ LoadTimeline
    \/ ScanPage
    \/ RenderInit
    \/ RenderMonth
    \/ RenderPage
    \/ BuildIndex
    \/ SearchPage
    \/ WriteSearch
    \/ BuildRss
    \/ Convert

Spec == Init /\ [][Next]_vars

----------------------------------------------------------------------------
(* Vocabulary of the properties *)

\* the ids of the messages present in the store
StoreIds == {i \in Ids : db.bucket_of[i] # None}

\* the _render_page calls whose message list holds message i
PagesHolding(i) == {k \in 1..Len(rendered) : \E j \in 1..Len(rendered[k].messages) :
                                                rendered[k].messages[j] = i}

\* how often message i occurs in a message list
Occurrences(i, messages) == Cardinality({j \in 1..Len(messages) : messages[j] = i})

\* build() returned normally
Completed == pc = "done" /\ error = None

\* the render pass is over
RenderOver == pc \in {"index", "search", "search_write", "rss", "done"}

\* the resolution pass is over
ResolutionOver == pc \in {"resolved", "render_month", "render_page", "index", "search",
                          "search_write", "rss", "done", "failed"}
                  /\ phases # <<"Idle">>

Ascending(messages) == \A j \in 1..(Len(messages) - 1) : messages[j] < messages[j + 1]

----------------------------------------------------------------------------
(* C1: after build() completes on a non-empty timeline, every message id of  *)
(* the store is in the message list of exactly one rendered page, once, and  *)
(* that page was written to the file page_ids[id] names, which holds it.     *)
C1_ResolutionRenderConsistent ==
    (Completed /\ db.timeline # <<>>) =>
        \A i \in StoreIds :
            /\ Cardinality(PagesHolding(i)) = 1
            /\ i \in DOMAIN page_ids
            /\ \A k \in PagesHolding(i) :
                  /\ Occurrences(i, rendered[k].messages) = 1
                  /\ rendered[k].fname = page_ids[i]
            /\ page_ids[i] \in DOMAIN fs.files
            /\ Occurrences(i, fs.files[page_ids[i]].messages) = 1

\* a completed run over two months with messages, one of them on several pages
C1_Witness ==
    /\ Completed
    /\ \A m \in {"2023-12", "2024-01"} : IdsOf(db, m) # {}
    /\ Cardinality(StoreIds) >= 4
    /\ \E i \in StoreIds : page_ids[i] = "2024-01_2.html"
    /\ Len(rendered) >= 3

----------------------------------------------------------------------------
(* C2: no page is rendered before the resolution pass has covered every      *)
(* month of the timeline, and once the resolution pass is over no step of    *)
(* build() adds, removes or changes an entry of page_ids or day_to_page.     *)
C2_ResolvedBeforeRender ==
    /\ [](rendered # <<>> => (ResolutionOver /\ DOMAIN page_ids = StoreIds))
    /\ [][ResolutionOver => (page_ids' = page_ids /\ day_to_page' = day_to_page)]_vars

\* a completed run of build.py that rendered pages of two months, wrote
\* search records and published feeds
C2_Witness ==
    /\ Completed
    /\ variant = "build"
    /\ \E k \in 1..Len(rendered) : rendered[k].month = "2024-01"
    /\ rendered[1].month = "2023-12"
    /\ records # <<>>
    /\ "index.xml" \in DOMAIN fs.files
    /\ DOMAIN day_to_page # {}

----------------------------------------------------------------------------
(* C3: the render pass produces the same sequence of pages as the resolution *)
(* pass: at every point the pages rendered so far are the first pages the    *)
(* resolution pass met (same month, page number, filename and message ids in *)
(* the same ascending order), and when the render pass is over, all of them. *)
C3_PassesAgree ==
    /\ Len(rendered) <= Len(scanned)
    /\ \A k \in 1..Len(rendered) :
          /\ rendered[k].month = scanned[k].month
          /\ rendered[k].page = scanned[k].page
          /\ rendered[k].fname = scanned[k].fname
          /\ rendered[k].messages = scanned[k].messages
          /\ Ascending(rendered[k].messages)
    /\ RenderOver => Len(rendered) = Len(scanned)

\* the render pass is over and met a month of several pages and a second month
C3_Witness ==
    /\ RenderOver
    /\ Len(rendered) >= 3
    /\ rendered[2].page = 2
    /\ Len(rendered[1].messages) = 2
    /\ Last(rendered).month = "2024-01"

----------------------------------------------------------------------------
(* C4: for a month whose ids in ascending order are m_1..m_n and per_page =   *)
(* p, the render pass yields exactly ceil(n/p) pages, page k holds            *)
(* m_((k-1)p+1) .. m_min(kp,n) in that order and is named slug.html for k = 1 *)
(* and slug_k.html for k > 1; with p = 2 and ids 1..5 the pages are <<1,2>>,  *)
(* <<3,4>>, <<5>> in slug.html, slug_2.html, slug_3.html.                     *)

\* the pages rendered for a month, in render order
PagesOfMonth(month) == LET OfMonth(pg) == pg.month = month IN SelectSeq(rendered, OfMonth)

\* the filename the claim gives page k of a month
ExpectedName(month, k) ==
    IF k = 1 THEN month \o ".html" ELSE month \o "_" \o ToString(k) \o ".html"

C4_PagesAreSlices ==
    RenderOver =>
        \A i \in 1..Len(timeline) :
            LET month == timeline[i]
                m == SetToSeq(IdsOf(db, month))
                n == Len(m)
                p == config.per_page
                pages == PagesOfMonth(month)
            IN  /\ (Len(pages) - 1) * p < n
                /\ n <= Len(pages) * p
                /\ \A k \in 1..Len(pages) :
                      /\ pages[k].page = k
                      /\ pages[k].messages = SubSeq(m, (k - 1) * p + 1, Min(k * p, n))
                      /\ pages[k].fname = ExpectedName(month, k)
                      /\ fs.files[ExpectedName(month, k)].messages = pages[k].messages
                /\ (p = 2 /\ m = <<1, 2, 3, 4, 5>>) =>
                      /\ [k \in 1..Len(pages) |-> pages[k].messages] = << <<1, 2>>, <<3, 4>>, <<5>> >>
                      /\ [k \in 1..Len(pages) |-> pages[k].fname] =
                             <<month \o ".html", month \o "_2.html", month \o "_3.html">>

\* the render pass is over for the month of ids 1..5 with per_page = 2
C4_Witness ==
    /\ RenderOver
    /\ config.per_page = 2
    /\ IdsOf(db, "2023-12") = {1, 2, 3, 4, 5}
    /\ Len(rendered) = 3
    /\ "2023-12_3.html" \in DOMAIN fs.files

----------------------------------------------------------------------------
(* C5: the total_pages handed to every _render_page call of a month is the   *)
(* number of pages the render loop produces for that month: on every         *)
(* rendered page 1 <= current <= total, and the last page of a month has     *)
(* current = total.                                                          *)
C5_TotalPagesMatches ==
    /\ \A k \in 1..Len(rendered) :
          /\ 1 <= rendered[k].page
          /\ rendered[k].page <= rendered[k].total_pages
          /\ fs.files[rendered[k].fname].current = rendered[k].page
          /\ fs.files[rendered[k].fname].total = rendered[k].total_pages
    /\ RenderOver =>
          \A i \in 1..Len(timeline) :
              LET pages == PagesOfMonth(timeline[i])
              IN  \A k \in 1..Len(pages) :
                      /\ pages[k].total_pages = Len(pages)
                      /\ k = Len(pages) => pages[k].page = pages[k].total_pages

\* the render pass is over; one month had two pages, the last one not full,
\* and another month a single full page
C5_Witness ==
    /\ RenderOver
    /\ config.per_page = 2
    /\ \E k \in 1..Len(rendered) :
          /\ rendered[k].page = 2
          /\ rendered[k].total_pages = 2
          /\ Len(rendered[k].messages) = 1
    /\ \E k \in 1..Len(rendered) :
          /\ rendered[k].total_pages = 1
          /\ Len(rendered[k].messages) = 2

----------------------------------------------------------------------------
(* C6: when build() completes having rendered at least one page, index.html  *)
(* is a copy of or a link to the last page rendered, which is the highest    *)
(* page of the last month of the timeline that has messages; when the        *)
(* timeline is empty, build() returns without error and without index.html.  *)

\* the last month of the store's timeline that has messages
LastMonthWithMessages ==
    LET having == {i \in 1..Len(db.timeline) : IdsOf(db, db.timeline[i]) # {}}
    IN  db.timeline[CHOOSE i \in having : \A j \in having : j <= i]

C6_IndexIsLastPage ==
    /\ (Completed /\ rendered # <<>>) =>
          LET lastp == Last(rendered)
              n == Cardinality(IdsOf(db, LastMonthWithMessages))
          IN  /\ lastp.month = LastMonthWithMessages
              /\ (lastp.page - 1) * config.per_page < n
              /\ n <= lastp.page * config.per_page
              /\ "index.html" \in DOMAIN fs.files
              /\ fs.files["index.html"] =
                    IF symlink
                    THEN [kind |-> "link", to |-> lastp.fname]
                    ELSE [kind |-> "page", month |-> lastp.month, messages |-> lastp.messages,
                          current |-> lastp.page, total |-> lastp.total_pages]
    /\ (pc \in {"done", "failed"} /\ db.timeline = <<>> /\ phases # <<"Idle">>) =>
          /\ Completed
          /\ "index.html" \notin DOMAIN fs.files

\* a completed run that linked index.html to the second page of the first
\* month, the second month of the timeline having no messages
C6_Witness ==
    /\ Completed
    /\ symlink
    /\ Len(db.timeline) = 2
    /\ IdsOf(db, "2024-01") = {}
    /\ Len(rendered) >= 2
    /\ fs.files["index.html"] = [kind |-> "link", to |-> "2023-12_2.html"]

----------------------------------------------------------------------------
(* C7: search.json has no record of a message whose content is missing,      *)
(* empty or whitespace-only, and exactly one record of every other message   *)
(* of the store, whose url is page_ids[id], "#", id.                         *)

\* the content is missing, empty or made of whitespace only
Blank(content) ==
    content = None \/ \A j \in 1..Len(content) : content[j] \in {" ", "\n", "\t"}

C7_SearchRecords ==
    "search.json" \in DOMAIN fs.files =>
        LET written == fs.files["search.json"].records
        IN  /\ \A k \in 1..Len(written) : written[k].id \in StoreIds
            /\ \A i \in StoreIds :
                  LET of_i == {k \in 1..Len(written) : written[k].id = i}
                  IN  IF Blank(db.content[i])
                      THEN of_i = {}
                      ELSE /\ Cardinality(of_i) = 1
                           /\ \A k \in of_i : written[k].url = page_ids[i] \o "#" \o ToString(i)

\* search.json written for a store with a whitespace-only message, a message
\* without content and two messages with text, one of them on a second page
C7_Witness ==
    /\ "search.json" \in DOMAIN fs.files
    /\ \E i \in StoreIds : db.content[i] = None
    /\ \E i \in StoreIds : db.content[i] # None /\ db.content[i] = <<" ", "\n">>
    /\ \E i \in StoreIds : db.content[i] # None /\ db.content[i] = <<" ", "b", "\t">>
    /\ Len(fs.files["search.json"].records) >= 2
    /\ \E k \in 1..Len(fs.files["search.json"].records) :
          fs.files["search.json"].records[k].url \in {"2023-12_2.html#3", "2023-12_2.html#4"}

----------------------------------------------------------------------------
(* C8: with feeds published and capacity N = rss_feed_entries, at every      *)
(* point of a run that has not failed                                        *)
(* the feed window holds at most N messages and is the last                  *)
(* min(N, k) of the k messages appended so far, in render order; when        *)
(* _build_rss is called it is the last min(N, total) messages of the archive *)
(* in month order, then ascending id.                                        *)

RECURSIVE MessagesOf(_)
\* the messages of a sequence of pages, in order
MessagesOf(pages) ==
    IF pages = <<>> THEN <<>> ELSE Head(pages).messages \o MessagesOf(Tail(pages))

RECURSIVE ArchiveFrom(_)
\* the messages of the months i.. of the timeline, in month order, then ascending id
ArchiveFrom(i) ==
    IF i > Len(db.timeline) THEN <<>>
    ELSE SetToSeq(IdsOf(db, db.timeline[i])) \o ArchiveFrom(i + 1)

LastOf(s, n) == SubSeq(s, Len(s) - Min(n, Len(s)) + 1, Len(s))

C8_FeedWindow ==
    (config.publish_rss_feed /\ error = None) =>
        /\ Len(rss_entries) <= config.rss_feed_entries
        /\ rss_entries = LastOf(MessagesOf(rendered), config.rss_feed_entries)
        /\ pc = "rss" => rss_entries = LastOf(ArchiveFrom(1), config.rss_feed_entries)

\* _build_rss is about to run on a window of 2 of the 5 messages of two months
C8_Witness ==
    /\ pc = "rss"
    /\ config.publish_rss_feed
    /\ config.rss_feed_entries = 2
    /\ config.per_page = 3
    /\ Cardinality(IdsOf(db, "2023-12")) = 4
    /\ Cardinality(IdsOf(db, "2024-01")) = 1
    /\ Len(rss_entries) = 2
    /\ rss_entries[1] \in IdsOf(db, "2023-12")
    /\ rss_entries[2] \in IdsOf(db, "2024-01")

----------------------------------------------------------------------------
(* C9: when publish_dir resolves to the filesystem root or to the home       *)
(* directory, _create_publish_dir raises and no filesystem call is made:     *)
(* nothing is deleted, created or copied.                                    *)
C9_UnsafeDirRefused ==
    (Resolve(config.publish_dir) \in {"root", "home"} /\ pc # "idle") =>
        /\ pc = "failed"
        /\ error = "RuntimeError"
        /\ fsops = <<>>
        /\ "old.html" \in DOMAIN fs.files

----------------------------------------------------------------------------
(* C10: a run of build() of build.py on a non-empty timeline passes through  *)
(* the phases Idle, DirectoryPrepared, TimelineLoaded, Resolved, Rendering,  *)
(* Indexed, FedPublished, Done in that order, each entered at most once.     *)

AllPhases == <<"Idle", "DirectoryPrepared", "TimelineLoaded", "Resolved", "Rendering",
               "Indexed", "FedPublished", "Done">>

\* the claim as stated: every completed run has passed through all the phases
C10_AllPhasesPassed ==
    (variant = "build" /\ Completed /\ db.timeline # <<>>) => phases = AllPhases

\* the phases of a run that publishes no feeds: FedPublished is not entered
PhasesWithoutFeed ==
    LET NotFed(ph) == ph # "FedPublished" IN SelectSeq(AllPhases, NotFed)

IsPrefix(s, t) == Len(s) <= Len(t) /\ SubSeq(t, 1, Len(s)) = s

\* the positions in fsops of the writes of the files in a set
WritesOf(names) == {k \in 1..Len(fsops) : fsops[k].op = "write" /\ fsops[k].on \in names}

FeedFiles == {"index.xml", "index.atom"}

(* C10, amended: the phases entered are always an initial part of the list   *)
(* Idle, DirectoryPrepared, TimelineLoaded, Resolved, Rendering, Indexed,    *)
(* FedPublished, Done, with FedPublished left out when publish_rss_feed is   *)
(* false, and the whole list when the run completes; search.json is written  *)
(* after every page and before the feed files.                               *)
C10_PhasesInOrder ==
    (variant = "build" /\ db.timeline # <<>>) =>
        LET expected == IF config.publish_rss_feed THEN AllPhases ELSE PhasesWithoutFeed
        IN  /\ IsPrefix(phases, expected)
            /\ Completed => phases = expected
            /\ Completed => Cardinality(WritesOf({"search.json"})) = 1
            /\ (Completed /\ config.publish_rss_feed) => WritesOf(FeedFiles) # {}
            /\ \A j \in WritesOf({"search.json"}) :
                  /\ \A k \in WritesOf({r.fname : r \in Range(rendered)}) : k < j
                  /\ \A k \in WritesOf(FeedFiles) : j < k

\* a completed run of build.py that rendered pages and published feeds
C10_Witness ==
    /\ variant = "build"
    /\ Completed
    /\ phases = AllPhases
    /\ Len(rendered) >= 2
    /\ WritesOf(FeedFiles) # {}

----------------------------------------------------------------------------
(* C11: on an empty timeline build() goes from Idle straight to Done without *)
(* DirectoryPrepared and is a no-op: no filesystem call is made and the      *)
(* publish directory is as it was before the call.                           *)
C11_EmptyTimelineNoOp ==
    (db.timeline = <<>> /\ pc = "done") =>
        /\ phases = <<"Idle", "Done">>
        /\ fsops = <<>>
        /\ "old.html" \in DOMAIN fs.files

----------------------------------------------------------------------------
(* C12: when no template is loaded, build() fails, and the error is raised   *)
(* before any destructive filesystem action: when the run is over the old    *)
(* publish directory is not deleted and no file is written.                  *)
C12_TemplateErrorFirst ==
    (template = None /\ pc \in {"done", "failed"}) =>
        /\ pc = "failed"
        /\ fsops = <<>>
        /\ fs.exists => "old.html" \in DOMAIN fs.files

----------------------------------------------------------------------------
(* C13: a content whose conversion or rendering fails inside _markdown never *)
(* makes build() fail: _markdown returns its fallback, and a run that ends   *)
(* has written the page of every message whose content failed to render.     *)
C13_MarkdownFallback ==
    /\ error # "MarkdownError"
    /\ (pc \in {"done", "failed"} /\ env = NoFailure /\ template # None) =>
          \A i \in db.unrenderable \cap StoreIds :
              \E k \in 1..Len(rendered) :
                  /\ i \in Range(rendered[k].messages)
                  /\ rendered[k].fname \in DOMAIN fs.files

----------------------------------------------------------------------------
(* C14: with publish_rss_feed false the feed window stays empty, _build_rss  *)
(* is never called and no feed file is written, and what a run leaves apart  *)
(* from the feed files is the same site whether feeds are published or not;  *)
(* with publish_rss_feed true the window holds the messages of the rendered  *)
(* pages and the feed files are written once, after the last page.           *)

\* the number of pages of a month, from the store and the page size alone
PageCount(month) == Ceil(Cardinality(IdsOf(db, month)), config.per_page)

\* the messages of page k of a month, from the store and the page size alone
SliceOf(month, k) ==
    LET m == SetToSeq(IdsOf(db, month))
    IN  SubSeq(m, (k - 1) * config.per_page + 1, Min(k * config.per_page, Len(m)))

\* the page of a month that holds message i
PageNumberOf(month, i) ==
    CHOOSE k \in 1..PageCount(month) : i \in Range(SliceOf(month, k))

\* the records of search.json, from the store and the page size alone
ExpectedRecords ==
    LET ids == SelectSeq(ArchiveFrom(1), LAMBDA i : ~Blank(db.content[i]))
    IN  [j \in 1..Len(ids) |->
            LET i == ids[j]
                month == db.bucket_of[i]
            IN  [id |-> i, text |-> RawText(db.content[i]),
                 url |-> MsgUrl(ExpectedName(month, PageNumberOf(month, i)), i)]]

\* the months and page numbers of the pages of the site
PageKeys == {key \in Range(db.timeline) \X (1..Cardinality(Ids)) : key[2] <= PageCount(key[1])}

\* the site of a store apart from the feed files: the assets, the pages, the
\* index and, in build.py, the search index; the feed configuration does not
\* enter
ExpectedSite ==
    LET PageAt(key) == PageFile(key[1], SliceOf(key[1], key[2]), key[2], PageCount(key[1]))
        lastkey == <<LastMonthWithMessages, PageCount(LastMonthWithMessages)>>
        names == DOMAIN Assets
                 \cup {ExpectedName(key[1], key[2]) : key \in PageKeys}
                 \cup (IF PageKeys # {} THEN {"index.html"} ELSE {})
                 \cup (IF variant = "build" /\ db.timeline # <<>> THEN {"search.json"} ELSE {})
    IN  [f \in names |->
            IF f \in DOMAIN Assets THEN Assets[f]
            ELSE IF f = "search.json" THEN [kind |-> "search", records |-> ExpectedRecords]
            ELSE IF f = "index.html"
            THEN (IF symlink
                  THEN [kind |-> "link", to |-> ExpectedName(lastkey[1], lastkey[2])]
                  ELSE PageAt(lastkey))
            ELSE PageAt(CHOOSE key \in PageKeys : ExpectedName(key[1], key[2]) = f)]

\* the files of a directory that are no feed files
NonFeed(files) == [f \in DOMAIN files \ FeedFiles |-> files[f]]

C14_FeedSwitch ==
    /\ ~config.publish_rss_feed =>
          /\ rss_entries = <<>>
          /\ \A k \in 1..Len(fsops) : fsops[k].on \notin FeedFiles
          /\ DOMAIN fs.files \cap FeedFiles = {}
          /\ "FedPublished" \notin Range(phases)
    /\ pc \in {"rss", "done"} => NonFeed(fs.files) = ExpectedSite
    /\ (config.publish_rss_feed /\ error = None) =>
          /\ Len(rss_entries) = Min(config.rss_feed_entries, Len(MessagesOf(rendered)))
          /\ rss_entries # <<>> => Last(rss_entries) = Last(Last(rendered).messages)
          /\ WritesOf(FeedFiles) # {} => pc = "done"
          /\ (Completed /\ db.timeline # <<>>) =>
                /\ \A f \in FeedFiles : Cardinality(WritesOf({f})) = 1
                /\ \A k \in WritesOf(FeedFiles), j \in 1..Len(fsops) :
                      fsops[j].on \in {rendered[n].fname : n \in 1..Len(rendered)} => j < k
                /\ fs.files["index.xml"].entries =
                      FeedEntries(LastOf(ArchiveFrom(1), config.rss_feed_entries))

\* a completed run without feeds, with a window size that would hold
\* messages, that wrote two pages or more, index.html and search.json
C14_Witness ==
    /\ Completed
    /\ ~config.publish_rss_feed
    /\ config.rss_feed_entries > 0
    /\ Len(rendered) >= 2
    /\ {"index.html", "search.json"} \subseteq DOMAIN fs.files

----------------------------------------------------------------------------
(* C15: in build.py, at every point of the resolution pass and after it,     *)
(* day_to_page[slug] is the filename of the page that holds the first        *)
(* message of that day (the smallest id of the day in its month), so a value *)
(* once recorded is never replaced, also when the day's messages lie on      *)
(* several pages; after the pass every day that has a message has an entry.  *)

\* the day slug of message i
SlugOf(i) == DateSlug(db.bucket_of[i], db.day[i])

\* the messages of the store of the day with the given slug
OfDay(slug) == {i \in StoreIds : SlugOf(i) = slug}

\* the first message of a day in traversal order
FirstOfDay(slug) == CHOOSE i \in OfDay(slug) : \A j \in OfDay(slug) : i <= j

C15_FirstWriterWins ==
    variant = "build" =>
        /\ \A slug \in DOMAIN day_to_page :
              /\ OfDay(slug) # {}
              /\ LET first == FirstOfDay(slug)
                     month == db.bucket_of[first]
                 IN  /\ day_to_page[slug] = ExpectedName(month, PageNumberOf(month, first))
                     /\ \E k \in 1..Len(scanned) :
                           /\ first \in Range(scanned[k].messages)
                           /\ scanned[k].fname = day_to_page[slug]
        /\ \A k \in 1..Len(scanned) :
              \A i \in Range(scanned[k].messages) : SlugOf(i) \in DOMAIN day_to_page
        /\ ResolutionOver => DOMAIN day_to_page = {SlugOf(i) : i \in StoreIds}

\* the resolution pass is over and met a day whose messages lie on two pages,
\* with messages of another day between them
C15_Witness ==
    /\ variant = "build"
    /\ ResolutionOver
    /\ \E k \in 1..Len(scanned), n \in 1..Len(scanned) :
          /\ k < n
          /\ scanned[k].month = scanned[n].month
          /\ \E i \in Range(scanned[k].messages), j \in Range(scanned[n].messages) :
                /\ SlugOf(i) = SlugOf(j)
                /\ day_to_page[SlugOf(i)] = scanned[k].fname
                /\ \E x \in StoreIds : i < x /\ x < j /\ SlugOf(x) # SlugOf(i)
                                       /\ db.bucket_of[x] = scanned[k].month

----------------------------------------------------------------------------
(* C17: a page file whose write fails in _render_page ends the run with the  *)
(* error: the failed open is the last filesystem call of the run and the     *)
(* only one on that file (no retry), no later page is rendered, index.html,  *)
(* search.json and the feed files are not written, and no run completes or   *)
(* writes a page whose file cannot be written.                               *)

\* the positions in fsops of the page writes that failed
FailedPageWrites ==
    {j \in 1..Len(fsops) : fsops[j].op = "open_failed" /\ fsops[j].on # "search.json"}

C17_PageWriteFatal ==
    /\ \A k \in 1..Len(rendered) : rendered[k].fname \notin env.unwritable
    /\ \A f \in DOMAIN fs.files : f \notin env.unwritable
    /\ Completed => \A key \in PageKeys : ExpectedName(key[1], key[2]) \notin env.unwritable
    /\ \A j \in FailedPageWrites :
          /\ j = Len(fsops)
          /\ Cardinality({n \in 1..Len(fsops) : fsops[n].on = fsops[j].on}) = 1
          /\ pc = "failed"
          /\ error = "OSError"
          /\ DOMAIN fs.files \cap ({"index.html", "search.json"} \cup FeedFiles) = {}
          /\ \A k \in 1..Len(rendered) : rendered[k].fname # fsops[j].on
          /\ scanned[Len(rendered) + 1].fname = fsops[j].on

\* the write of the second page of three failed
C17_Witness ==
    /\ pc = "failed"
    /\ error = "OSError"
    /\ Len(rendered) = 1
    /\ Len(scanned) = 3
    /\ FailedPageWrites # {}
    /\ Last(fsops).on = "2023-12_2.html"

----------------------------------------------------------------------------
(* C16: a run of build() that is over either completed and left the complete *)
(* site, or failed and left no page file in the publish directory.           *)

\* the feed files a completed run leaves
ExpectedFeeds == IF config.publish_rss_feed /\ db.timeline # <<>> THEN FeedFiles ELSE {}

\* the publish directory holds the complete site of the store
SiteComplete ==
    /\ NonFeed(fs.files) = ExpectedSite
    /\ DOMAIN fs.files \cap FeedFiles = ExpectedFeeds

\* the names of the page files of the site
PageNames == {ExpectedName(key[1], key[2]) : key \in PageKeys}

C16_CompleteOrNothing ==
    pc \in {"done", "failed"} =>
        \/ Completed /\ SiteComplete
        \/ pc = "failed" /\ DOMAIN fs.files \cap PageNames = {}

(* C16, amended: a run of build() that is over either completed and left the *)
(* complete site, or failed; a failed run left the publish directory either  *)
(* untouched (the error came from _create_publish_dir) or without any file   *)
(* of the earlier run and with the files it wrote before the failure, each   *)
(* as in the complete site, but not all of them.                             *)
C16_CompleteOrPartial ==
    pc \in {"done", "failed"} =>
        IF error = None
        THEN pc = "done" /\ SiteComplete
        ELSE /\ pc = "failed"
             /\ \/ fsops = <<>> /\ "old.html" \in DOMAIN fs.files
                \/ /\ "old.html" \notin DOMAIN fs.files
                   /\ DOMAIN Assets \subseteq DOMAIN fs.files
                   /\ DOMAIN fs.files \subseteq DOMAIN ExpectedSite
                   /\ \A f \in DOMAIN fs.files : fs.files[f] = ExpectedSite[f]
                   /\ DOMAIN fs.files # DOMAIN ExpectedSite \cup ExpectedFeeds

\* a run that failed on its third page and left the first two in a directory
\* that held an earlier site
C16_Witness ==
    /\ pc = "failed"
    /\ Len(rendered) = 2
    /\ {rendered[1].fname, rendered[2].fname} \subseteq DOMAIN fs.files
    /\ "index.html" \notin DOMAIN fs.files
    /\ fsops[1].op = "rmtree"

----------------------------------------------------------------------------
(* C19: every page the pagination loop yields, in the resolution pass, the   *)
(* render pass and the search traversal, is non-empty, holds at most         *)
(* per_page messages, all of one month, in ascending id order; the pages of  *)
(* a month follow each other without overlap and without a gap: the first    *)
(* starts at the smallest id of the month, and between the last id of a page *)
(* and the first id of the next the month has no message; a month without    *)
(* messages yields no page.                                                  *)

\* pages is a sequence of pages [month, messages] cut from the store as claimed
WellPaged(pages) ==
    /\ \A k \in 1..Len(pages) :
          LET pg == pages[k]
              before == {n \in 1..(k - 1) : pages[n].month = pg.month}
              low == IF before = {} THEN 0
                     ELSE Last(pages[CHOOSE n \in before : \A x \in before : x <= n].messages)
          IN  /\ pg.messages # <<>>
              /\ Len(pg.messages) <= config.per_page
              /\ Range(pg.messages) \subseteq IdsOf(db, pg.month)
              /\ Ascending(pg.messages)
              /\ low < Head(pg.messages)
              /\ \A i \in IdsOf(db, pg.month) :
                    (low < i /\ i <= Last(pg.messages)) => i \in Range(pg.messages)
              \* the pages of a month are met one after the other
              /\ before # {} => pages[k - 1].month = pg.month
    /\ \A k \in 1..Len(pages) : IdsOf(db, pages[k].month) # {}

\* the traversal is over and met every message of the store
AllPaged(pages) == UNION {Range(pages[k].messages) : k \in 1..Len(pages)} = StoreIds

C19_PagesAreSlices ==
    /\ WellPaged(scanned)
    /\ WellPaged(rendered)
    /\ WellPaged(searched)
    /\ ResolutionOver => AllPaged(scanned)
    /\ RenderOver => AllPaged(rendered)
    /\ pc \in {"search_write", "rss", "done"} /\ variant = "build" /\ db.timeline # <<>>
          => AllPaged(searched)

\* the search traversal is over; it met a month without messages, then a
\* month of three pages, the last one not full
C19_Witness ==
    /\ pc = "search_write"
    /\ config.per_page = 2
    /\ IdsOf(db, "2023-12") = {}
    /\ Len(searched) = 3
    /\ Len(rendered) = 3
    /\ Len(scanned) = 3
    /\ Len(searched[3].messages) = 1
    /\ searched[1].month = "2024-01"

----------------------------------------------------------------------------
(* C20: each pagination loop ends: a request that returns messages moves the *)
(* cursor last_id strictly up, the loop leaves on its first empty result,    *)
(* which for a month of n messages is request number ceil(n/per_page) + 1,   *)
(* and every step of build() moves the run strictly forward in a bounded     *)
(* order, so that every run is finite; build() ends failed exactly when an   *)
(* error was raised.                                                         *)

\* the position of build() in the order of its steps
PhaseRank ==
    CASE pc = "idle" -> 0
      [] pc = "dir_prepared" -> 1
      [] pc = "scan" -> 2
      [] pc = "resolved" -> 3
      [] pc \in {"render_month", "render_page"} -> 4
      [] pc = "index" -> 5
      [] pc = "search" -> 6
      [] pc = "search_write" -> 7
      [] pc = "rss" -> 8
      [] pc \in {"done", "failed"} -> 9
      [] pc = "formatter" -> 10

\* how far the run has come: the step of build(), then the month of the running
\* loop, then the position in the month, then the cursor
Progress ==
    ((PhaseRank * (Len(Months) + 2) + mi) * 2 + (IF pc = "render_page" THEN 1 ELSE 0))
        * (Cardinality(Ids) + 1) + last_id + Len(tg_out)

\* the largest value of Progress
MaxProgress == ((10 * (Len(Months) + 2) + Len(Months) + 1) * 2 + 1) * (Cardinality(Ids) + 1) + Cardinality(Ids) + 2

\* the bounds on the requests of the loop that ran last
RequestsBounded ==
    requests.pass # None =>
        LET n == Cardinality(IdsOf(db, requests.month))
            most == Ceil(n, config.per_page)
        IN  /\ requests.count <= most + 1
            /\ requests.done = (requests.count = most + 1)
            /\ ~requests.done => requests.after < last_id

C20_LoopsTerminate ==
    /\ [](/\ RequestsBounded
          /\ Progress <= MaxProgress
          /\ (pc = "failed") = (error # None))
    /\ [][Progress' > Progress]_vars

\* the render loop of a month of 5 messages left on its 4th request, with
\* per_page = 2
C20_Witness ==
    /\ requests.pass = "render"
    /\ requests.done
    /\ requests.count = 4
    /\ config.per_page = 2
    /\ Cardinality(IdsOf(db, requests.month)) = 5

----------------------------------------------------------------------------
(* C18: for a text that is already escaped and has no Telegram-style marker, *)
(* converting the result of convert again changes nothing, and the result    *)
(* of convert has no marker that the text did not have.                      *)

\* the Telegram-style markers
Markers == {"*", "_", "~", Backquote}

MarkerFree(text) == Range(text) \cap Markers = {}

\* the characters html.escape replaces
Special == {"&", "<", ">", "\"", "'"}

\* the character references html.escape writes
References == {EscapeChar(c) : c \in Special}

\* nothing is left to escape: every & starts a character reference and no
\* other special character occurs
AlreadyEscaped(text) ==
    /\ Range(text) \cap (Special \ {"&"}) = {}
    /\ \A j \in 1..Len(text) : text[j] = "&" => \E e \in References : OccursAt(text, e, j)

C18_ConvertIdempotent ==
    (pc = "formatter" /\ Len(tg_out) = 2 /\ AlreadyEscaped(tg_text) /\ MarkerFree(tg_text)) =>
        /\ tg_out[2] = tg_out[1]
        /\ Range(tg_out[1]) \cap Markers \subseteq Range(tg_text)

(* C18, amended: for a text without Telegram-style markers convert returns   *)
(* html.escape of the text, which has no marker; converting the result again *)
(* changes nothing exactly when the text has none of the characters          *)
(* & < > " ' , so an already escaped text that holds a character reference   *)
(* is escaped once more.                                                     *)
C18_ConvertEscapes ==
    (pc = "formatter" /\ MarkerFree(tg_text)) =>
        /\ Len(tg_out) >= 1 =>
              /\ tg_out[1] = Escape(tg_text)
              /\ MarkerFree(tg_out[1])
        /\ Len(tg_out) = 2 =>
              (tg_out[2] = tg_out[1]) = (Range(tg_text) \cap Special = {})

\* the escaped text &amp; converted twice: &amp;amp; and then &amp;amp;amp;
C18_Witness ==
    /\ pc = "formatter"
    /\ tg_text = <<"&", "a", "m", "p", ";">>
    /\ Len(tg_out) = 2
    /\ tg_out[1] = <<"&", "a", "m", "p", ";", "a", "m", "p", ";">>
    /\ tg_out[2] # tg_out[1]

----------------------------------------------------------------------------
(* C21: make_filename gives the pages of a run different names: no two      *)
(* pages of the resolution pass or of the render pass have the same name,    *)
(* no two rendered pages have the same month and page number, no             *)
(* page file is written twice, the file of a rendered page holds that page,  *)
(* and two ids that page_ids maps to the same filename lie on the same page  *)
(* of the same month.                                                        *)

\* the positions in fsops of the writes of the file of a given name
WritesTo(fname) == {j \in 1..Len(fsops) : fsops[j].op = "write" /\ fsops[j].on = fname}

C21_DisjointFilenames ==
    /\ \A k \in 1..Len(scanned), n \in 1..Len(scanned) :
          (scanned[k].fname = scanned[n].fname) = (k = n)
    /\ \A k \in 1..Len(rendered), n \in 1..Len(rendered) :
          /\ (rendered[k].fname = rendered[n].fname) = (k = n)
          /\ (rendered[k].month = rendered[n].month /\ rendered[k].page = rendered[n].page)
                = (k = n)
    /\ \A k \in 1..Len(rendered) :
          /\ Cardinality(WritesTo(rendered[k].fname)) = 1
          /\ fs.files[rendered[k].fname] =
                PageFile(rendered[k].month, rendered[k].messages, rendered[k].page,
                         rendered[k].total_pages)
    /\ \A i \in DOMAIN page_ids, j \in DOMAIN page_ids :
          page_ids[i] = page_ids[j] =>
              /\ db.bucket_of[i] = db.bucket_of[j]
              /\ \E k \in 1..Len(scanned) : {i, j} \subseteq Range(scanned[k].messages)

\* a completed run that rendered two pages of each of two months
C21_Witness ==
    /\ Completed
    /\ Len(rendered) >= 4
    /\ \E k \in 1..Len(rendered), n \in 1..Len(rendered) :
          /\ rendered[k].month = "2023-12" /\ rendered[k].page = 2
          /\ rendered[n].month = "2024-01" /\ rendered[n].page = 2

----------------------------------------------------------------------------
(* C22: every message that gets a search record or a feed entry has an entry *)
(* in page_ids when the record or the entry is built: no record has the url  *)
(* '#<id>', no feed entry the url '<site_url>/#<id>', every url names the    *)
(* page page_ids gives the message, and the lookup of build1.py never        *)
(* raises KeyError.                                                          *)
C22_PageIdsAlwaysFound ==
    /\ error # "KeyError"
    /\ \A k \in 1..Len(searched) : Range(searched[k].messages) \subseteq DOMAIN page_ids
    /\ \A k \in 1..Len(records) :
          /\ records[k].id \in DOMAIN page_ids
          /\ records[k].url # MsgUrl("", records[k].id)
          /\ records[k].url = MsgUrl(page_ids[records[k].id], records[k].id)
    /\ Range(rss_entries) \subseteq DOMAIN page_ids
    /\ \A f \in FeedFiles \cap DOMAIN fs.files :
          \A k \in 1..Len(fs.files[f].entries) :
              LET entry == fs.files[f].entries[k]
              IN  /\ entry.id \in DOMAIN page_ids
                  /\ entry.url # EntryUrl("", entry.id)
                  /\ entry.url = EntryUrl(page_ids[entry.id], entry.id)

\* a completed run of build.py that wrote a search record and a feed entry
\* for a message of the second page of a month
C22_Witness ==
    /\ Completed
    /\ variant = "build"
    /\ "index.xml" \in DOMAIN fs.files
    /\ \E k \in 1..Len(records), n \in 1..Len(fs.files["index.xml"].entries) :
          /\ records[k].id = fs.files["index.xml"].entries[n].id
          /\ page_ids[records[k].id] = "2023-12_2.html"

----------------------------------------------------------------------------
(* C23: the records of search.json are in encounter order, those of an       *)
(* earlier month of the timeline before those of a later month and within a  *)
(* month in ascending id, and they are the same records whatever per_page    *)
(* is.                                                                       *)

\* the position of a month in the timeline
MonthIndex(month) == CHOOSE i \in 1..Len(db.timeline) : db.timeline[i] = month

\* the records are in month order, then in ascending id
EncounterOrder(rs) ==
    \A k \in 1..Len(rs), n \in 1..Len(rs) :
        k < n =>
            LET mk == MonthIndex(db.bucket_of[rs[k].id])
                mn == MonthIndex(db.bucket_of[rs[n].id])
            IN  mk < mn \/ (mk = mn /\ rs[k].id < rs[n].id)

\* the page of its month that holds message i when pages have pp messages
PageNumberAt(month, i, pp) ==
    Ceil(Cardinality({j \in IdsOf(db, month) : j <= i}), pp)

\* the records of the store when pages have pp messages
RecordsAt(pp) ==
    LET ids == SelectSeq(ArchiveFrom(1), LAMBDA i : ~Blank(db.content[i]))
    IN  [j \in 1..Len(ids) |->
            LET i == ids[j]
                month == db.bucket_of[i]
            IN  [id |-> i, text |-> RawText(db.content[i]),
                 url |-> MsgUrl(ExpectedName(month, PageNumberAt(month, i, pp)), i)]]

\* the fields of records that do not name a page
Unpaged(rs) == [k \in 1..Len(rs) |-> [id |-> rs[k].id, text |-> rs[k].text]]

C23_SameForEveryPerPage ==
    "search.json" \in DOMAIN fs.files =>
        LET written == fs.files["search.json"].records
        IN  /\ EncounterOrder(written)
            /\ \A pp \in PerPages : written = RecordsAt(pp)

(* C23, amended: the records of search.json are in encounter order, those of *)
(* an earlier month of the timeline before those of a later month and within *)
(* a month in ascending id; which messages have a record, in which order and *)
(* with which text is the same whatever per_page is, while the url of a      *)
(* record names the page of the message and so depends on per_page.          *)
C23_EncounterOrder ==
    /\ EncounterOrder(records)
    /\ "search.json" \in DOMAIN fs.files =>
          LET written == fs.files["search.json"].records
          IN  /\ EncounterOrder(written)
              /\ written = RecordsAt(config.per_page)
              /\ \A pp \in PerPages : Unpaged(written) = Unpaged(RecordsAt(pp))

\* search.json written with per_page = 2: the record of a message of the
\* first month before the record of a message of the second month that has
\* a smaller id, one of them with another url than it has with per_page = 1
C23_Witness ==
    /\ "search.json" \in DOMAIN fs.files
    /\ config.per_page = 2
    /\ LET written == fs.files["search.json"].records
       IN  /\ Len(written) = 2
           /\ db.bucket_of[written[1].id] = "2023-12"
           /\ db.bucket_of[written[2].id] = "2024-01"
           /\ written[2].id < written[1].id
           /\ \E k \in 1..Len(written) : written[k].url # RecordsAt(1)[k].url

====
